---- MODULE Spec2Model ----
(***************************************************************************)
(* A model of pyqtconsole's transcript data structures and stream:         *)
(*   - Partition (log.py): cumulative offsets of chunks                    *)
(*   - Log (log.py): records kept with two Partitions                      *)
(*   - Stream (stream.py): the stdin/stdout surrogate                      *)
(* Python lists are sequences; a Python index i is position i + 1.         *)
(* Strings are sequences of one-character strings, "\n" the line break.    *)
(***************************************************************************)
EXTENDS Integers, Sequences, FiniteSets, TLC

VARIABLES
    locs,       \* Partition._locs of a stand-alone Partition
    pcall,      \* the last call made on that Partition and its outcome
    pprev,      \* the call before it, kept when it was a successful insert
    records,    \* Log.records
    linenos,    \* Log.linenos._locs
    positions,  \* Log.positions._locs
    lcall,      \* the last call made on the Log and its outcome
    queue,      \* Stream._queue: the items of the Queue, oldest first
    written,    \* the text handed to Stream.write and not consumed since
    scall,      \* the last write/flush/close on the Stream and its outcome
    rcall,      \* the reader's last readline call and its outcome
    closed,     \* Stream.close has been called
    doc,        \* the text of the console's edit widget
    cursor,     \* the widget's text cursor: anchor and position
    prompt_pos, \* BaseConsole._prompt_pos
    prompt_end, \* BaseConsole._prompt_end
    current_line, \* BaseConsole._current_line
    last_input, \* BaseConsole._last_input (not set before the first input)
    more,       \* BaseConsole._more (not set before the first input)
    thread,     \* PythonConsole._thread: "None" or "Thread"
    fg,         \* where the foreground thread is: "idle" between two
                \* handlers, or inside Ctrl-C: "cancel" between the test of
                \* _executing() and _cancel(), then "flush_reset",
                \* "flush_put" and "flush_emit" before each step of
                \* stdin.flush()
    executing,  \* interpreter.executing(): a submission is running
    in_thread,  \* that submission runs on the worker thread
    interrupt,  \* an asynchronous KeyboardInterrupt is pending in the worker
    done_queue, \* done_signal emissions not yet handled by the foreground
    pending,    \* submissions dispatched to the interpreter and not started
    tab_chars,  \* BaseConsole._tab_chars
    ctrl_d_exits, \* BaseConsole._ctrl_d_exits
    ccall       \* the last handler run by the console and its outcome

pvars == <<locs, pcall, pprev>>
lvars == <<records, linenos, positions, lcall>>
svars == <<queue, written, scall, rcall, closed>>
kvars == <<tab_chars, ctrl_d_exits>>
cvars == <<doc, cursor, prompt_pos, prompt_end, current_line, last_input,
           more, thread, fg, executing, in_thread, interrupt, done_queue,
           pending, tab_chars, ctrl_d_exits, ccall>>
vars == <<locs, pcall, pprev, records, linenos, positions, lcall,
          queue, written, scall, rcall, closed,
          doc, cursor, prompt_pos, prompt_end, current_line, last_input,
          more, thread, fg, executing, in_thread, interrupt, done_queue,
          pending, tab_chars, ctrl_d_exits, ccall>>

\* ------------------------------------------------------------------ bounds
MaxChunks == 2      \* append/insert are not called on a Partition this long
MaxSize == 2        \* chunk sizes passed by the caller are in 0..MaxSize
MaxLoc == 5         \* calls whose offsets would leave -MaxLoc..MaxLoc are not made

MaxRecords == 3     \* append/insert are not called on a Log this long
MaxWritten == 4     \* write is not called with more unconsumed text than this
MaxOutstanding == 2  \* Return with complete input is not pressed with this
                    \* many submissions not yet reported and handled
MaxDoc == 1         \* no key is typed, no text inserted into a buffer that is
                    \* not empty, and no tab set, with a document longer than this
MaxTranscript == 2  \* no input is entered with more records than this logged
MaxLine == 1        \* no input is entered once _current_line is this
MaxInput == 7       \* Tab, and a selection, need a document no longer than this

Sizes == 0..MaxSize
Indices == (0 - (MaxChunks + 1))..(MaxChunks + 1)
LogIndices == (0 - (MaxRecords + 1))..(MaxRecords + 1)
Locations == 0..MaxLoc

\* ------------------------------------------------------ Python list helpers
\* list.pop(i) / del list[i] for 0 <= i < len(list): the list without item i
list_pop(l, i) ==
    [k \in 1..(Len(l) - 1) |-> IF k <= i THEN l[k] ELSE l[k + 1]]

\* list.insert(i, v): i < 0 counts from the end, and the index is clamped
list_insert(l, i, v) ==
    LET n == Len(l)
        j == IF i < 0 THEN (IF i + n < 0 THEN 0 ELSE i + n)
             ELSE (IF i > n THEN n ELSE i)
    IN [k \in 1..(n + 1) |->
            IF k <= j THEN l[k] ELSE IF k = j + 1 THEN v ELSE l[k - 1]]

\* list[i] = v: IndexError unless -len <= i < len
list_setitem(l, i, v) ==
    IF i < 0 - Len(l) \/ i >= Len(l)
    THEN [list |-> l, raised |-> TRUE]
    ELSE [list |-> [l EXCEPT ![(IF i < 0 THEN i + Len(l) ELSE i) + 1] = v],
          raised |-> FALSE]

\* del list[i]: IndexError unless -len <= i < len
list_delitem(l, i) ==
    IF i < 0 - Len(l) \/ i >= Len(l)
    THEN [list |-> l, raised |-> TRUE]
    ELSE [list |-> list_pop(l, IF i < 0 THEN i + Len(l) ELSE i),
          raised |-> FALSE]

\* str.count(c) for a one-character c
str_count(s, c) == Cardinality({k \in 1..Len(s) : s[k] = c})

\* bisect.bisect_left(a, x, lo, hi): the binary search of the library
RECURSIVE bisect_left(_, _, _, _)
bisect_left(a, x, lo, hi) ==
    IF lo < hi
    THEN LET mid == (lo + hi) \div 2
         IN IF a[mid + 1] < x
            THEN bisect_left(a, x, mid + 1, hi)
            ELSE bisect_left(a, x, lo, mid)
    ELSE lo

\* --------------------------------------------------------------- Partition
\* The outcome of a call: the offsets after it, whether it raised
\* IndexError, and the value it returned (0 when it returns nothing).
Outcome(l, raised, ret) == [locs |-> l, raised |-> raised, ret |-> ret]

Partition_init == <<0>>

Partition_len(l) == Len(l) - 1

\* mutant: the lower end of the valid range is rejected
check_index_lowend(l, index) ==
    IF index <= 0 - Partition_len(l) \/ index >= Partition_len(l)
    THEN [raised |-> TRUE, index |-> index]
    ELSE [raised |-> FALSE,
          index |-> IF index < 0 THEN index + Partition_len(l) ELSE index]

check_index(l, index) ==
    IF index < 0 - Partition_len(l) \/ index >= Partition_len(l)
    THEN [raised |-> TRUE, index |-> index]
    ELSE [raised |-> FALSE,
          index |-> IF index < 0 THEN index + Partition_len(l) ELSE index]

update_locs(l, start_index, added_lines) ==
    [k \in 1..Len(l) |->
        IF k - 1 >= start_index THEN l[k] + added_lines ELSE l[k]]

Partition_getitem(l, index) ==
    LET c == check_index(l, index)
    IN IF c.raised THEN Outcome(l, TRUE, 0)
       ELSE Outcome(l, FALSE, l[c.index + 2] - l[c.index + 1])

Partition_setitem(l, index, size) ==
    LET c == check_index(l, index)
    IN IF c.raised THEN Outcome(l, TRUE, 0)
       ELSE Outcome(update_locs(l, c.index + 1, size - l[c.index + 1]),
                    FALSE, 0)

Partition_delitem(l, index) ==
    LET c == check_index(l, index)
    IN IF c.raised THEN Outcome(l, TRUE, 0)
       ELSE LET size == l[c.index + 1]
            IN Outcome(update_locs(list_pop(l, c.index), c.index, 0 - size),
                       FALSE, 0)

Partition_append(l, size) ==
    Outcome(Append(l, l[Len(l)] + size), FALSE, 0)

Partition_insert(l, index, size) ==
    LET c == check_index(l, index)
    IN IF c.raised THEN Outcome(l, TRUE, 0)
       ELSE Outcome(update_locs(list_insert(l, c.index, l[c.index + 1]),
                                c.index + 1, size),
                    FALSE, 0)

Partition_find_loc(l, loc) ==
    Outcome(l, FALSE, bisect_left(l, loc, 0, Len(l)))

Partition_first(l, index) ==
    LET c == check_index(l, index)
    IN IF c.raised THEN Outcome(l, TRUE, 0)
       ELSE Outcome(l, FALSE, l[c.index + 1])

Partition_last(l, index) ==
    LET c == check_index(l, index)
    IN IF c.raised THEN Outcome(l, TRUE, 0)
       ELSE Outcome(l, FALSE, l[c.index + 2] - 1)

\* ------------------------------------------------------------------ Stream
\* ''.join(items)
RECURSIVE str_join(_)
str_join(items) ==
    IF items = <<>> THEN <<>> ELSE Head(items) \o str_join(Tail(items))

\* c in s, for a one-character c
str_contains(s, c) == \E k \in 1..Len(s) : s[k] = c

Signal(name, data) == [signal |-> name, data |-> data]

Stream_init == <<>>

\* _reset_buffer, run with the Queue's mutex held: the queued items
\* joined, and the Queue emptied
Stream_reset_buffer(q) == [data |-> str_join(q), queue |-> <<>>]

\* a _flush that puts nothing into the Queue
Stream_flush_no_put(q) == q

\* the put('') of _flush, which takes the mutex again: the Queue gets one
\* more item, the empty string
Stream_flush_put(q) == Append(q, <<>>)

\* The outcome of a call on the Stream: the Queue after it, the exception
\* it raised ("none" when it returned), the value returned and the signals
\* emitted, in order.
StreamOutcome(q, raised, ret, emitted) ==
    [queue |-> q, raised |-> raised, ret |-> ret, emitted |-> emitted]

\* write: the Stream has no attribute _buffer, so testing it raises
\* AttributeError before anything is queued or emitted
Stream_write(q, data) == StreamOutcome(q, "AttributeError", <<>>, <<>>)

\* the end of flush: flush_event is emitted with the data _flush returned,
\* no lock held, and that data returned
Stream_flush_emit(q, data) ==
    StreamOutcome(q, "none", data, <<Signal("flush_event", data)>>)

Stream_close(q) ==
    StreamOutcome(q, "none", <<>>, <<Signal("close_event", <<>>)>>)

\* readline(timeout) is Queue.get(block = timeout != 0, timeout): an item
\* is taken when there is one; without one a non-blocking call raises
\* Empty and a blocking call waits.
Timeouts == {"None", "0", "positive"}

Stream_readline(q, timeout) ==
    IF q # <<>> THEN [queue |-> Tail(q), state |-> "returned", ret |-> Head(q)]
    ELSE IF timeout = "0" THEN [queue |-> q, state |-> "Empty", ret |-> <<>>]
    ELSE [queue |-> q, state |-> "waiting", ret |-> <<>>]

\* the text a caller hands to write
WriteData == { <<"a">>, <<"b", "\n">> }

\* the written text up to, and excluding, its first line break
RECURSIVE UpToLineBreak(_)
UpToLineBreak(s) ==
    IF s = <<>> \/ Head(s) = "\n" THEN <<>>
    ELSE <<Head(s)>> \o UpToLineBreak(Tail(s))

\* what is left of the written text once readline has returned ret: a
\* returned first line and its line break are consumed
AfterLine(w, ret) ==
    IF str_contains(w, "\n") /\ UpToLineBreak(w) = ret
    THEN SubSeq(w, Len(ret) + 2, Len(w))
    ELSE w

\* pc is where the writer is in its call: "put" and "emit" inside flush,
\* before the put('') and before the emission, "returned" otherwise; local
\* is the data of _flush
NoStreamCall ==
    [op |-> "none", data |-> <<>>, raised |-> "none", ret |-> <<>>,
     emitted |-> <<>>, pending |-> <<>>, pc |-> "returned", local |-> <<>>]

NoReadline ==
    [state |-> "none", timeout |-> "None", ret |-> <<>>, pending |-> <<>>,
     afterclose |-> FALSE]

\* a write or close, made by the writer when it is in no other call, with
\* outcome o and leaving w unconsumed
StreamCall(op, data, o, w) ==
    /\ scall.pc = "returned"
    /\ queue' = o.queue
    /\ written' = w
    /\ scall' = [op |-> op, data |-> data, raised |-> o.raised,
                 ret |-> o.ret, emitted |-> o.emitted, pending |-> written,
                 pc |-> "returned", local |-> <<>>]
    /\ closed' = (closed \/ op = "close")
    /\ UNCHANGED <<rcall, pvars, lvars, cvars>>

Call_Stream_write ==
    \E data \in WriteData :
        /\ Len(written) + Len(data) <= MaxWritten
        /\ StreamCall("write", data, Stream_write(queue, data),
                      written \o data)

\* the writer calls flush: _reset_buffer takes the mutex, empties the
\* Queue and releases the mutex
Call_Stream_flush ==
    LET r == Stream_reset_buffer(queue)
    IN /\ scall.pc = "returned"
       /\ queue' = r.queue
       /\ written' = <<>>
       /\ scall' = [NoStreamCall EXCEPT !.op = "flush", !.pending = written,
                                        !.pc = "put", !.local = r.data]
       /\ UNCHANGED <<rcall, closed, pvars, lvars, cvars>>

\* the flush goes on: put('')
Call_Stream_flush_put ==
    /\ scall.pc = "put"
    /\ queue' = Stream_flush_put(queue)
    /\ scall' = [scall EXCEPT !.pc = "emit"]
    /\ UNCHANGED <<written, rcall, closed, pvars, lvars, cvars>>

\* the flush ends: flush_event is emitted and the data returned
Call_Stream_flush_emit ==
    LET o == Stream_flush_emit(queue, scall.local)
    IN /\ scall.pc = "emit"
       /\ scall' = [scall EXCEPT !.pc = "returned", !.raised = o.raised,
                                 !.ret = o.ret, !.emitted = o.emitted]
       /\ UNCHANGED <<queue, written, rcall, closed, pvars, lvars, cvars>>

Call_Stream_close ==
    StreamCall("close", <<>>, Stream_close(queue), written)

\* the reader, when it is not inside a readline, calls readline(timeout)
Call_Stream_readline ==
    \E timeout \in Timeouts :
        LET o == Stream_readline(queue, timeout)
        IN /\ rcall.state # "waiting"
           /\ queue' = o.queue
           /\ rcall' = [state |-> o.state, timeout |-> timeout,
                        ret |-> o.ret, pending |-> written,
                        afterclose |-> closed]
           /\ written' = IF o.state = "returned"
                         THEN AfterLine(written, o.ret) ELSE written
           /\ UNCHANGED <<scall, closed, pvars, lvars, cvars>>

\* a waiting readline returns once the Queue holds an item, when no
\* exception has been injected into the reader's thread
Stream_readline_resume ==
    /\ rcall.state = "waiting"
    /\ queue # <<>>
    /\ ~interrupt
    /\ queue' = Tail(queue)
    /\ rcall' = [rcall EXCEPT !.state = "returned", !.ret = Head(queue),
                                !.pending = written]
    /\ written' = AfterLine(written, Head(queue))
    /\ UNCHANGED <<scall, closed, pvars, lvars, cvars>>

\* a readline waiting with a timeout raises Empty when the time is up
Stream_readline_timeout ==
    /\ rcall.state = "waiting"
    /\ rcall.timeout = "positive"
    /\ queue = <<>>
    /\ rcall' = [rcall EXCEPT !.state = "Empty", !.pending = written]
    /\ UNCHANGED <<queue, written, scall, closed, pvars, lvars, cvars>>


StreamIdle ==
    /\ queue = Stream_init
    /\ written = <<>>
    /\ scall = NoStreamCall
    /\ rcall = NoReadline
    /\ closed = FALSE

\* ------------------------------------------- the stand-alone Partition
InRange(l) == \A k \in 1..Len(l) : l[k] \in (0 - MaxLoc)..MaxLoc

NoCall == [op |-> "none", index |-> 0, size |-> 0, pre |-> <<0>>,
           raised |-> FALSE, ret |-> 0]

NoInsert == [op |-> "none", index |-> 0, pre |-> <<0>>]

\* what is remembered of a call once the next call is made
Remembered(c) ==
    IF c.op = "insert" /\ ~c.raised
    THEN [op |-> "insert", index |-> c.index, pre |-> c.pre]
    ELSE NoInsert

\* The offsets are as the data model requires: from 0 and non-decreasing.
\* A Partition that has lost this is a broken internal invariant; the model
\* shows the call that breaks it and makes no further call on the wreck.
Intact(l) ==
    /\ l[1] = 0
    /\ \A k \in 1..(Len(l) - 1) : l[k] <= l[k + 1]

\* a call op(index, size) with outcome o made on the Partition
PartitionCall(op, index, size, o) ==
    /\ Intact(locs)
    /\ InRange(o.locs)
    /\ locs' = o.locs
    /\ pcall' = [op |-> op, index |-> index, size |-> size, pre |-> locs,
                 raised |-> o.raised, ret |-> o.ret]
    /\ pprev' = Remembered(pcall)
    /\ UNCHANGED <<lvars, svars, cvars>>

Call_Partition_getitem ==
    \E index \in Indices :
        PartitionCall("get", index, 0, Partition_getitem(locs, index))

Call_Partition_setitem ==
    \E index \in Indices, size \in Sizes :
        PartitionCall("set", index, size, Partition_setitem(locs, index, size))

Call_Partition_delitem ==
    \E index \in Indices :
        PartitionCall("delete", index, 0, Partition_delitem(locs, index))

Call_Partition_append ==
    \E size \in Sizes :
        /\ Partition_len(locs) < MaxChunks
        /\ PartitionCall("append", 0, size, Partition_append(locs, size))

Call_Partition_insert ==
    \E index \in Indices, size \in Sizes :
        /\ Partition_len(locs) < MaxChunks
        /\ PartitionCall("insert", index, size,
                         Partition_insert(locs, index, size))

Call_Partition_find_loc ==
    \E loc \in Locations :
        PartitionCall("find_loc", loc, 0, Partition_find_loc(locs, loc))

Call_Partition_first ==
    \E index \in Indices :
        PartitionCall("first", index, 0, Partition_first(locs, index))

Call_Partition_last ==
    \E index \in Indices :
        PartitionCall("last", index, 0, Partition_last(locs, index))

\* --------------------------------------------------------------------- Log
LogRecord(domain, prompt, text) ==
    [domain |-> domain, prompt |-> prompt, text |-> text]

num_lines(record) == str_count(record.prompt, "\n")

\* the records the callers of the model pass: an input prompt, two lines of
\* printed output, and a result without a prompt line
SampleRecords ==
    { LogRecord("IN", <<"p", "\n">>, <<>>),
      LogRecord("STDOUT", <<"\n", "\n">>, <<"a", "\n", "b">>),
      LogRecord("OUT", <<>>, <<"x">>) }

\* The outcome of a call on the Log: the three containers after it and
\* whether it raised IndexError. A call that raises keeps what the
\* statements before the raising one have done.
LogOutcome(r, ln, ps, raised) ==
    [records |-> r, linenos |-> ln, positions |-> ps, raised |-> raised]

Log_setitem(r, ln, ps, index, record) ==
    LET a == list_setitem(r, index, record)
        b == Partition_setitem(ln, index, num_lines(record))
        c == Partition_setitem(ps, index, Len(record.text))
    IN IF a.raised THEN LogOutcome(r, ln, ps, TRUE)
       ELSE IF b.raised THEN LogOutcome(a.list, ln, ps, TRUE)
       ELSE IF c.raised THEN LogOutcome(a.list, b.locs, ps, TRUE)
       ELSE LogOutcome(a.list, b.locs, c.locs, FALSE)

Log_delitem(r, ln, ps, index) ==
    LET a == list_delitem(r, index)
        b == Partition_delitem(ln, index)
        c == Partition_delitem(ps, index)
    IN IF a.raised THEN LogOutcome(r, ln, ps, TRUE)
       ELSE IF b.raised THEN LogOutcome(a.list, ln, ps, TRUE)
       ELSE IF c.raised THEN LogOutcome(a.list, b.locs, ps, TRUE)
       ELSE LogOutcome(a.list, b.locs, c.locs, FALSE)

Log_append(r, ln, ps, record) ==
    LogOutcome(Append(r, record),
               Partition_append(ln, num_lines(record)).locs,
               Partition_append(ps, Len(record.text)).locs,
               FALSE)

Log_insert(r, ln, ps, index, record) ==
    LET a == list_insert(r, index, record)
        b == Partition_insert(ln, index, num_lines(record))
        c == Partition_insert(ps, index, Len(record.text))
    IN IF b.raised THEN LogOutcome(a, ln, ps, TRUE)
       ELSE IF c.raised THEN LogOutcome(a, b.locs, ps, TRUE)
       ELSE LogOutcome(a, b.locs, c.locs, FALSE)

\* the chunk sizes of a Partition, as __getitem__ gives them
ChunkSizes(l) == [k \in 1..Partition_len(l) |-> l[k + 1] - l[k]]

\* The three containers agree, as the data model requires. As with a
\* Partition, the model shows the call that breaks this and makes no
\* further call on the broken Log.
InStep(r, ln, ps) ==
    /\ Intact(ln)
    /\ Intact(ps)
    /\ ChunkSizes(ln) = [k \in 1..Len(r) |-> num_lines(r[k])]
    /\ ChunkSizes(ps) = [k \in 1..Len(r) |-> Len(r[k].text)]

NoRecord == LogRecord("", <<>>, <<>>)

NoLogCall ==
    [op |-> "none", index |-> 0, record |-> NoRecord,
     pre |-> LogOutcome(<<>>, <<0>>, <<0>>, FALSE), raised |-> FALSE]

\* a call op(index, record) with outcome o made on the Log
LogCall(op, index, record, o) ==
    /\ InStep(records, linenos, positions)
    /\ InRange(o.linenos)
    /\ InRange(o.positions)
    /\ records' = o.records
    /\ linenos' = o.linenos
    /\ positions' = o.positions
    /\ lcall' = [op |-> op, index |-> index, record |-> record,
                 pre |-> LogOutcome(records, linenos, positions, FALSE),
                 raised |-> o.raised]
    /\ UNCHANGED <<pvars, svars, cvars>>

Call_Log_setitem ==
    \E index \in LogIndices, record \in SampleRecords :
        LogCall("set", index, record,
                Log_setitem(records, linenos, positions, index, record))

Call_Log_delitem ==
    \E index \in LogIndices :
        LogCall("delete", index, NoRecord,
                Log_delitem(records, linenos, positions, index))

Call_Log_append ==
    \E record \in SampleRecords :
        /\ Len(records) < MaxRecords
        /\ LogCall("append", 0, record,
                   Log_append(records, linenos, positions, record))

Call_Log_insert ==
    \E index \in LogIndices, record \in SampleRecords :
        /\ Len(records) < MaxRecords
        /\ LogCall("insert", index, record,
                   Log_insert(records, linenos, positions, index, record))

LogIdle ==
    /\ records = <<>>
    /\ linenos = Partition_init
    /\ positions = Partition_init
    /\ lcall = NoLogCall

PartitionIdle ==
    /\ locs = Partition_init
    /\ pcall = NoCall
    /\ pprev = NoInsert

\* ----------------------------------------------------------------- console
\* str.endswith(c) for a one-character c
str_endswith(s, c) == s # <<>> /\ s[Len(s)] = c

\* '%s' % n for the line numbers the model reaches
Digit(n) == <<"0", "1", "2", "3", "4", "5", "6", "7", "8", "9">>[n + 1]

\* self._ps1 % n and self._ps_out % n
ps1(n) == <<"I", "N", " ", "[", Digit(n), "]", ":", " ">>
ps_out(n) == <<"O", "U", "T", "[", Digit(n), "]", ":", " ">>

\* repr(result) of a result the worker reports; "None" is None
Results == {"None", "1"}
py_repr(result) == <<result>>

\* The console a handler works on: its fields, with two counters of what
\* the handler has done so far: the calls of append, and the document
\* position where the last text appended as a record ends.
Console ==
    [records |-> records, linenos |-> linenos, positions |-> positions,
     doc |-> doc, cursor |-> cursor, prompt_pos |-> prompt_pos,
     prompt_end |-> prompt_end, current_line |-> current_line,
     last_input |-> last_input, more |-> more,
     tab_chars |-> tab_chars, ctrl_d_exits |-> ctrl_d_exits,
     appends |-> 0, appended_end |-> 0]

Collapsed(p) == [anchor |-> p, position |-> p]

BaseConsole_append(c, domain, prompt, text) ==
    LET ins_newline ==
            IF Len(c.records) > 0
               /\ ~str_endswith(c.records[Len(c.records)].text, "\n")
            THEN <<"\n">> ELSE <<>>
        lg == Log_append(c.records, c.linenos, c.positions,
                         LogRecord(domain, prompt, text))
        d == c.doc \o ins_newline \o text
    IN [c EXCEPT !.records = lg.records, !.linenos = lg.linenos,
                 !.positions = lg.positions, !.doc = d,
                 !.cursor = Collapsed(Len(d)),
                 !.appends = @ + 1,
                 !.appended_end = IF text # <<>> THEN Len(d) ELSE @]

BaseConsole_show_ps(c) ==
    LET c1 == IF Len(c.records) > 0 /\ c.records[Len(c.records)].domain # "IN"
              THEN BaseConsole_append(c, "", <<"\n">>, <<"\n">>)
              ELSE c
    IN BaseConsole_append(c1, "IN", ps1(c1.current_line) \o <<"\n">>, <<>>)

BaseConsole_finish_command(c, executed, result) ==
    LET c1 == IF result # "None"
              THEN BaseConsole_append(c, "OUT", ps_out(c.current_line),
                                      py_repr(result))
              ELSE c
        c2 == IF executed /\ c1.last_input # <<>>
              THEN [c1 EXCEPT !.current_line = @ + 1]
              ELSE c1
    IN BaseConsole_show_ps(c2)

Min(a, b) == IF a < b THEN a ELSE b
Max(a, b) == IF a > b THEN a ELSE b

BaseConsole_keep_cursor_in_buffer(c) ==
    [c EXCEPT !.cursor =
        [anchor |-> Max(Min(c.cursor.anchor, c.prompt_end), c.prompt_pos),
         position |-> Max(Min(c.cursor.position, c.prompt_end),
                          c.prompt_pos)]]

BaseConsole_update_prompt_pos(c) == [c EXCEPT !.prompt_pos = Len(c.doc)]

BaseConsole_input_buffer(c) == SubSeq(c.doc, c.prompt_pos + 1, Len(c.doc))

\* _remove_selected_input on the widget's cursor: the selected text is
\* removed; when it held a line break the handler then reads _prompt_doc,
\* which no code sets, and raises AttributeError
BaseConsole_remove_selected_input(c) ==
    LET lo == Min(c.cursor.anchor, c.cursor.position)
        hi == Max(c.cursor.anchor, c.cursor.position)
        sel == SubSeq(c.doc, lo + 1, hi)
    IN IF lo = hi THEN [c |-> c, raised |-> "none"]
       ELSE [c |-> [c EXCEPT !.doc = SubSeq(c.doc, 1, lo)
                                      \o SubSeq(c.doc, hi + 1, Len(c.doc)),
                             !.cursor = Collapsed(lo)],
             raised |-> IF str_count(sel, "\n") > 0
                        THEN "AttributeError" ELSE "none"]

BaseConsole_insert_input_text(c, text) ==
    LET k == BaseConsole_keep_cursor_in_buffer(c)
        r == BaseConsole_remove_selected_input(k)
        p == r.c.cursor.position
    IN IF r.raised # "none" THEN r
       ELSE [c |-> [r.c EXCEPT !.doc = SubSeq(r.c.doc, 1, p) \o text
                                        \o SubSeq(r.c.doc, p + 1, Len(r.c.doc)),
                               !.cursor = Collapsed(p + Len(text))],
             raised |-> "none"]

\* process_input(source), is_more being what _run_source answers
BaseConsole_process_input(c, source, is_more) ==
    LET c1 == [c EXCEPT !.last_input = source, !.more = is_more]
    IN IF is_more THEN BaseConsole_show_ps(c1)
       ELSE BaseConsole_update_prompt_pos(c1)

\* _filter_keyPressEvent for a key with text and no modifier: no handler
\* intercepts it, the cursor is clamped and the text inserted
BaseConsole_key_press(c, text) ==
    BaseConsole_insert_input_text(BaseConsole_keep_cursor_in_buffer(c), text)

\* _filter_keyPressEvent for Return without modifier: _handle_enter_key
\* and then the clamp
BaseConsole_enter_key(c, is_more) ==
    LET c1 == [c EXCEPT !.cursor = Collapsed(c.prompt_end)]
        c2 == BaseConsole_process_input(c1, BaseConsole_input_buffer(c1),
                                        is_more)
    IN BaseConsole_keep_cursor_in_buffer(c2)

\* the console after BaseConsole.__init__ and PythonConsole.__init__
Console_init ==
    BaseConsole_show_ps(
        [records |-> <<>>, linenos |-> Partition_init,
         positions |-> Partition_init, doc |-> <<>>,
         cursor |-> Collapsed(0), prompt_pos |-> 0, prompt_end |-> 0,
         current_line |-> 0, last_input |-> <<>>, more |-> FALSE,
         tab_chars |-> <<" ", " ", " ", " ">>, ctrl_d_exits |-> FALSE,
         appends |-> 0, appended_end |-> 0])

NoConsoleCall ==
    [op |-> "none", raised |-> "none", data |-> <<>>,
     appends |-> 0, added |-> 0, appended_end |-> 0,
     clamped |-> FALSE, clamp |-> Collapsed(0),
     was_executing |-> FALSE, was_waiting |-> FALSE, delivered |-> FALSE,
     pre_thread |-> "None", teardown |-> FALSE, executed |-> FALSE,
     after_teardown |-> FALSE, line_number |-> 0,
     buf |-> <<>>, sel |-> Collapsed(0), ret_sel |-> Collapsed(0)]

\* --------------------------------------------------- the console's handlers
\* the keys with text that are typed
Keys == {"a"}

\* _stdout_data_handler(data)
BaseConsole_stdout_data_handler(c, data) ==
    LET n == str_count(data, "\n")
             + (IF str_endswith(data, "\n") THEN 0 ELSE 1)
    IN BaseConsole_append(c, "STDOUT", [i \in 1..n |-> "\n"], data)

\* self.stdout.write(data) with the console's handler connected to
\* write_event: every emission runs _stdout_data_handler
RECURSIVE Deliver(_, _)
Deliver(c, emitted) ==
    IF emitted = <<>> THEN c
    ELSE Deliver(IF Head(emitted).signal = "write_event"
                 THEN BaseConsole_stdout_data_handler(c, Head(emitted).data)
                 ELSE c,
                 Tail(emitted))

Console_stdout_write(c, data) ==
    LET o == Stream_write(Stream_init, data)
    IN [c |-> Deliver(c, o.emitted), raised |-> o.raised]

\* the branch of _handle_ctrl_c taken when nothing is executing
BaseConsole_ctrl_c_idle(c) ==
    LET c1 == [c EXCEPT !.last_input = <<>>]
        w == Console_stdout_write(c1, <<"^", "C", "\n">>)
    IN IF w.raised # "none" THEN w
       ELSE [c |-> BaseConsole_show_ps([w.c EXCEPT !.more = FALSE]),
             raised |-> "none"]

\* a PythonConsole.exit that keeps its thread
PythonConsole_exit_keep(t) == [thread |-> t, teardown |-> t # "None"]

\* PythonConsole.exit: the thread, when there is one, is told to exit and
\* forgotten
PythonConsole_exit(t) == [thread |-> "None", teardown |-> t # "None"]

\* PythonConsole._cancel, called on the foreground thread, up to its call
\* of stdin.flush(): with a thread, which is never the calling one, the
\* exception is injected into it and stdin is flushed next
PythonConsole_cancel(t) == [delivered |-> t # "None"]

\* the console's fields become those of c
SetConsole(c) ==
    /\ records' = c.records
    /\ linenos' = c.linenos
    /\ positions' = c.positions
    /\ doc' = c.doc
    /\ cursor' = c.cursor
    /\ prompt_pos' = c.prompt_pos
    /\ prompt_end' = c.prompt_end
    /\ current_line' = c.current_line
    /\ last_input' = c.last_input
    /\ more' = c.more

\* the record of a handler named op that left the console as c
Handled(op, c, raised) ==
    [NoConsoleCall EXCEPT !.op = op, !.raised = raised,
                          !.appends = c.appends,
                          !.added = Len(c.records) - Len(records),
                          !.appended_end = c.appended_end]

wvars == <<thread, fg, executing, in_thread, interrupt, done_queue,
           pending>>

\* the transcript, the document and the fields of the prompt
evars == <<records, linenos, positions, doc, cursor, prompt_pos, prompt_end,
           current_line, last_input, more>>

\* a key with text is pressed
KeyPress ==
    \E ch \in Keys :
        LET r == BaseConsole_key_press(Console, <<ch>>)
        IN /\ fg = "idle"
           /\ Len(doc) < MaxDoc
           /\ SetConsole(r.c)
           /\ ccall' = [Handled("key_press", r.c, r.raised) EXCEPT
                            !.data = <<ch>>, !.clamped = TRUE,
                            !.clamp =
                              BaseConsole_keep_cursor_in_buffer(Console).cursor]
           /\ UNCHANGED <<wvars, svars, pvars, lcall, kvars>>

\* a press of the left mouse button is not intercepted: the widget puts
\* its cursor where the press was
MousePress ==
    \E p \in 0..Len(doc) :
        /\ fg = "idle"
        /\ cursor' = Collapsed(p)
        /\ Len(doc) <= MaxDoc
        /\ ccall' = [NoConsoleCall EXCEPT !.op = "mouse_press"]
        /\ UNCHANGED <<records, linenos, positions, doc, prompt_pos,
                       prompt_end, current_line, last_input, more,
                       wvars, svars, pvars, lcall, kvars>>

\* the controller is Idle: no submission is running and every completion
\* has been handled
ControllerIdle == ~executing /\ done_queue = <<>>

\* the submissions made and not yet reported and handled
Outstanding ==
    pending + Len(done_queue) + (IF executing THEN 1 ELSE 0)

\* Return is pressed. The interpreter answers whether the input is
\* incomplete; complete input is dispatched to the interpreter, which
\* starts it at once when nothing is executing, on the worker thread when
\* there is one, and after the submissions before it otherwise.
EnterKey ==
    \E is_more \in BOOLEAN :
        LET c == BaseConsole_enter_key(Console, is_more)
        IN /\ fg = "idle"
           /\ is_more \/ Outstanding < MaxOutstanding
           /\ Len(records) < MaxTranscript
           /\ current_line < MaxLine
           /\ SetConsole(c)
           /\ ccall' = [Handled("enter_key", c, "none") EXCEPT
                            !.data = c.last_input, !.clamped = TRUE,
                            !.clamp = c.cursor]
           /\ executing' = (executing \/ ~is_more)
           /\ in_thread' = IF is_more \/ executing THEN in_thread
                           ELSE thread # "None"
           /\ pending' = IF ~is_more /\ executing THEN pending + 1
                         ELSE pending
           /\ UNCHANGED <<thread, fg, interrupt, done_queue, svars, pvars,
                          lcall, kvars>>

\* a done_signal emission reaches _finish_command
FinishCommand ==
    /\ fg = "idle"
    /\ done_queue # <<>>
    /\ LET d == Head(done_queue)
           c == BaseConsole_finish_command(Console, d.executed, d.result)
       IN /\ SetConsole(c)
          /\ ccall' = [Handled("finish_command", c, "none") EXCEPT
                           !.executed = d.executed]
    /\ done_queue' = Tail(done_queue)
    /\ UNCHANGED <<thread, fg, executing, in_thread, interrupt, pending,
                   svars, pvars, lcall, kvars>>

\* Ctrl-C is pressed: _handle_ctrl_c tests _executing() and either goes
\* on to _cancel() or discards the prompt
CtrlC ==
    /\ fg = "idle"
    /\ IF executing
       THEN /\ fg' = "cancel"
            /\ ccall' = [NoConsoleCall EXCEPT !.op = "ctrl_c",
                                              !.was_executing = TRUE]
            /\ UNCHANGED <<records, linenos, positions, doc, cursor,
                           prompt_pos, prompt_end, current_line, last_input,
                           more>>
       ELSE LET r == BaseConsole_ctrl_c_idle(Console)
            IN /\ SetConsole(r.c)
               /\ ccall' = Handled("ctrl_c", r.c, r.raised)
               /\ fg' = fg
    /\ UNCHANGED <<thread, executing, in_thread, interrupt, done_queue,
                   pending, svars, pvars, lcall, kvars>>

\* _cancel(), reached from _handle_ctrl_c: the test of _thread and
\* inject_exception
Cancel ==
    /\ fg = "cancel"
    /\ LET r == PythonConsole_cancel(thread)
       IN /\ interrupt' = (interrupt \/ r.delivered)
          /\ fg' = IF r.delivered THEN "flush_reset" ELSE "idle"
          /\ ccall' = [NoConsoleCall EXCEPT
                           !.op = "cancel", !.delivered = r.delivered,
                           !.was_executing = executing,
                           !.was_waiting = (rcall.state = "waiting"),
                           !.pre_thread = thread]
    /\ UNCHANGED <<evars, thread, executing, in_thread, done_queue, pending,
                   svars, pvars, lcall, kvars>>

\* _cancel() goes on with stdin.flush(): _reset_buffer empties the Queue
\* with its mutex held
CancelFlushReset ==
    /\ fg = "flush_reset"
    /\ queue' = Stream_reset_buffer(queue).queue
    /\ written' = <<>>
    /\ fg' = "flush_put"
    /\ UNCHANGED <<evars, thread, executing, in_thread, interrupt,
                   done_queue, pending, ccall, scall, rcall, closed,
                   pvars, lcall, kvars>>

\* stdin.flush() goes on: put('')
CancelFlushPut ==
    /\ fg = "flush_put"
    /\ queue' = Stream_flush_put(queue)
    /\ fg' = "flush_emit"
    /\ UNCHANGED <<evars, thread, executing, in_thread, interrupt,
                   done_queue, pending, ccall, written, scall, rcall, closed,
                   pvars, lcall, kvars>>

\* stdin.flush() ends: flush_event, which nothing is connected to, is
\* emitted, and _cancel() and the Ctrl-C handler return
CancelFlushEmit ==
    /\ fg = "flush_emit"
    /\ fg' = "idle"
    /\ UNCHANGED <<evars, thread, executing, in_thread, interrupt,
                   done_queue, pending, ccall, svars, pvars, lcall, kvars>>

\* the record of an exit() with outcome r
ExitCall(r) ==
    [NoConsoleCall EXCEPT !.op = "exit", !.teardown = r.teardown,
                          !.pre_thread = thread,
                          !.after_teardown =
                              (ccall.op = "exit" /\ ccall.teardown)]

\* exit()
Exit ==
    /\ fg = "idle"
    /\ LET r == PythonConsole_exit(thread)
       IN /\ thread' = r.thread
          /\ ccall' = ExitCall(r)
    /\ UNCHANGED <<evars, fg, executing, in_thread, interrupt, done_queue,
                   pending, svars, pvars, lcall, kvars>>

\* the text _handle_d_key puts out
CtrlDText ==
    <<"\n", "C", "a", "n", "'", "t", " ", "u", "s", "e", " ", "C", "T",
      "R", "L", "-", "D", " ", "t", "o", " ", "e", "x", "i", "t", ",", " ",
      "y", "o", "u", " ", "h", "a", "v", "e", " ", "t", "o", " ", "e", "x",
      "i", "t", " ", "t", "h", "e", " ", "a", "p", "p", "l", "i", "c", "a",
      "t", "i", "o", "n", " ", "!", "\n">>

\* _insert_output_text(text): the text is appended as an OUT record with
\* one prompt line per line break, and the call of update_prompt_pos,
\* which the console does not have, raises AttributeError
BaseConsole_insert_output_text(c, text) ==
    [c |-> BaseConsole_append(c, "OUT",
                              [i \in 1..str_count(text, "\n") |-> "\n"],
                              text),
     raised |-> "AttributeError"]

\* _handle_d_key for Ctrl-D on an empty input buffer when Ctrl-D does not
\* exit: the exception leaves the handler before _show_ps
BaseConsole_d_key(c) == BaseConsole_insert_output_text(c, CtrlDText)

\* Ctrl-D is pressed: with input in the buffer nothing is done, without it
\* the console exits or puts out CtrlDText; the cursor is not clamped
CtrlD ==
    /\ fg = "idle"
    /\ IF BaseConsole_input_buffer(Console) # <<>>
       THEN /\ ccall' = [NoConsoleCall EXCEPT !.op = "ctrl_d"]
            /\ UNCHANGED <<evars, thread>>
       ELSE IF ctrl_d_exits
       THEN LET r == PythonConsole_exit(thread)
            IN /\ thread' = r.thread
               /\ ccall' = ExitCall(r)
               /\ UNCHANGED evars
       ELSE LET r == BaseConsole_d_key(Console)
            IN /\ Len(records) < MaxTranscript
               /\ SetConsole(r.c)
               /\ ccall' = [Handled("ctrl_d", r.c, r.raised) EXCEPT
                                !.data = CtrlDText]
               /\ thread' = thread
    /\ UNCHANGED <<fg, executing, in_thread, interrupt, done_queue, pending,
                   svars, pvars, lcall, kvars>>

\* ctrl_d_exits_console(b)
CtrlDExitsConsole ==
    \E b \in BOOLEAN :
        /\ fg = "idle"
        /\ ctrl_d_exits' = b
        /\ ccall' = [NoConsoleCall EXCEPT !.op = "ctrl_d_exits_console"]
        /\ UNCHANGED <<evars, wvars, tab_chars, svars, pvars, lcall>>

\* eval_in_thread(), called while nothing is executing and there is no
\* thread: the worker is a new thread, in which no exception is pending
\* (one injected into the thread before it went with that thread)
EvalInThread ==
    /\ fg = "idle"
    /\ thread = "None"
    /\ ~executing
    /\ thread' = "Thread"
    /\ interrupt' = FALSE
    /\ ccall' = [NoConsoleCall EXCEPT !.op = "eval_in_thread"]
    /\ UNCHANGED <<records, linenos, positions, doc, cursor, prompt_pos,
                   prompt_end, current_line, last_input, more,
                   fg, executing, in_thread, done_queue,
                   pending, svars, pvars, lcall, kvars>>

\* ------------------------------------------------------------- the worker
\* The running submission takes a step when the thread it runs on is free:
\* its own thread, or the foreground thread between two handlers.
WorkerRuns ==
    /\ executing
    /\ in_thread \/ fg = "idle"
    /\ rcall.state # "waiting"

\* the KeyboardInterrupt injected into the worker thread is pending in the
\* running submission: inject_exception addresses the thread's ident, so a
\* submission that runs on the foreground thread is not reached by it
InterruptPending == interrupt /\ in_thread

\* the submitted code writes to stdout; an exception stays in the worker
WorkerWrite ==
    \E data \in WriteData :
        LET r == Console_stdout_write(Console, data)
        IN /\ WorkerRuns
           /\ ~InterruptPending
           /\ fg = "idle"
           /\ SetConsole(r.c)
           /\ ccall' = [Handled("stdout_write", r.c, r.raised) EXCEPT
                            !.data = data]
           /\ UNCHANGED <<wvars, svars, pvars, lcall, kvars>>

\* the submitted code, on the worker thread, calls stdin.readline()
WorkerRead ==
    LET o == Stream_readline(queue, "None")
    IN /\ WorkerRuns
       /\ in_thread
       /\ ~interrupt
       /\ queue' = o.queue
       /\ rcall' = [state |-> o.state, timeout |-> "None", ret |-> o.ret,
                    pending |-> written, afterclose |-> closed]
       /\ written' = IF o.state = "returned"
                     THEN AfterLine(written, o.ret) ELSE written
       /\ UNCHANGED <<scall, closed, pvars, lvars, cvars>>

\* The running submission ends and reports done: the interpreter emits
\* done_signal and starts the submission dispatched next, when there is
\* one, on the worker thread when there is one.
SubmissionEnds(done) ==
    /\ done_queue' = Append(done_queue, done)
    /\ executing' = (pending > 0)
    /\ in_thread' = (pending > 0 /\ thread # "None")
    /\ pending' = IF pending > 0 THEN pending - 1 ELSE 0

\* the submission ends and reports executed = True and its result
WorkerDone ==
    \E result \in Results :
        /\ WorkerRuns
        /\ ~InterruptPending
        /\ SubmissionEnds([executed |-> TRUE, result |-> result])
        /\ UNCHANGED <<evars, ccall, thread, fg, interrupt, svars, pvars,
                       lcall, kvars>>

\* the pending KeyboardInterrupt is raised in the submission, which ends
\* and reports executed = False
WorkerInterrupted ==
    /\ WorkerRuns
    /\ InterruptPending
    /\ interrupt' = FALSE
    /\ SubmissionEnds([executed |-> FALSE, result |-> "None"])
    /\ UNCHANGED <<evars, ccall, thread, fg, svars, pvars, lcall, kvars>>

\* The readline the worker waits in is woken by an item put on the Queue
\* while a KeyboardInterrupt is pending in its thread: the exception is
\* raised inside Queue.get before the item is taken, so readline returns
\* nothing and the item stays in the Queue; the submission ends and
\* reports executed = False.
WorkerInterruptedInReadline ==
    /\ executing
    /\ rcall.state = "waiting"
    /\ queue # <<>>
    /\ interrupt
    /\ rcall' = [rcall EXCEPT !.state = "KeyboardInterrupt",
                              !.pending = written]
    /\ interrupt' = FALSE
    /\ SubmissionEnds([executed |-> FALSE, result |-> "None"])
    /\ UNCHANGED <<evars, ccall, thread, fg, queue, written, scall, closed,
                   pvars, lcall, kvars>>

\* --------------------------------------------- the transcript and its Log
\* s.split('\n')
RECURSIVE str_split(_)
str_split(s) ==
    IF ~str_contains(s, "\n") THEN <<s>>
    ELSE LET k == CHOOSE i \in 1..Len(s) :
                      /\ s[i] = "\n"
                      /\ \A j \in 1..(i - 1) : s[j] # "\n"
         IN <<SubSeq(s, 1, k - 1)>> \o str_split(SubSeq(s, k + 1, Len(s)))

\* list[index]: a negative index counts from the end, an index outside
\* the list raises IndexError
list_getitem(l, index) ==
    LET i == IF index < 0 THEN index + Len(l) ELSE index
    IN IF i < 0 \/ i >= Len(l) THEN [raised |-> TRUE, ret |-> <<>>]
       ELSE [raised |-> FALSE, ret |-> l[i + 1]]

\* _get_prompt_text(line_number) on the Log (r, ln, ps)
BaseConsole_get_prompt_text(r, ln, line_number) ==
    LET record_index == Partition_find_loc(ln, line_number).ret
        record_line == Partition_getitem(ln, record_index)
        record == list_getitem(r, record_index)
        line == IF record.raised THEN record
                ELSE list_getitem(str_split(record.ret.prompt),
                                  line_number + 1 - record_line.ret)
    IN IF record_line.raised \/ record.raised \/ line.raised
       THEN [raised |-> "IndexError", ret |-> <<>>]
       ELSE [raised |-> "none", ret |-> line.ret]

\* the records handed to append: those of SampleRecords, an input prompt
\* of two lines and the separator _show_ps appends
AppendRecords ==
    SampleRecords \cup
        { LogRecord("IN", <<"p", "\n", "q", "\n">>, <<"a">>),
          LogRecord("", <<"\n">>, <<"\n">>) }

\* append(domain, prompt, text) is called on the console
Call_append ==
    \E rec \in AppendRecords :
        LET c == BaseConsole_append(Console, rec.domain, rec.prompt, rec.text)
        IN /\ Len(records) <= MaxRecords
           /\ SetConsole(c)
           /\ ccall' = [Handled("append", c, "none") EXCEPT !.data = rec.text]
           /\ UNCHANGED <<wvars, svars, pvars, lcall, kvars>>

\* the number of prompt lines in the Log
TotalLines == linenos[Len(linenos)]

\* the prompt area asks for the prompt text of a line it renders
Call_get_prompt_text ==
    \E n \in 0..(TotalLines - 1) :
        LET o == BaseConsole_get_prompt_text(records, linenos, n)
        IN /\ ccall' = [NoConsoleCall EXCEPT !.op = "get_prompt_text",
                                             !.raised = o.raised,
                                             !.data = o.ret,
                                             !.line_number = n]
           /\ UNCHANGED <<records, linenos, positions, doc, cursor,
                          prompt_pos, prompt_end, current_line, last_input,
                          more, wvars, svars, pvars, lcall, kvars>>

\* ------------------------------------------------------ indent and outdent
\* s[:n] and s[n:] for n >= 0 or n < 0
py_slice_to(s, n) ==
    IF n < 0 THEN SubSeq(s, 1, Max(Len(s) + n, 0))
    ELSE SubSeq(s, 1, Min(n, Len(s)))

py_slice_from(s, n) ==
    IF n < 0 THEN SubSeq(s, Max(Len(s) + n, 0) + 1, Len(s))
    ELSE SubSeq(s, n + 1, Len(s))

\* s.lstrip(): leading white space, a tab included, is dropped
RECURSIVE str_lstrip(_)
str_lstrip(s) ==
    IF s # <<>> /\ Head(s) \in {" ", "\n", "\t"}
    THEN str_lstrip(Tail(s)) ELSE s

\* '\n'.join(lines)
RECURSIVE str_join_lines(_)
str_join_lines(lines) ==
    IF lines = <<>> THEN <<>>
    ELSE IF Len(lines) = 1 THEN lines[1]
    ELSE lines[1] \o <<"\n">> \o str_join_lines(Tail(lines))

\* QTextCursor.setPosition(p, mode): a position outside the document is
\* refused and the cursor stays as it is
Cursor_setPosition(d, cur, p, keep_anchor) ==
    IF p < 0 \/ p > Len(d) THEN cur
    ELSE [anchor |-> IF keep_anchor THEN cur.anchor ELSE p, position |-> p]

\* what the document does to a cursor kept by the caller: when the text
\* from lo to hi is removed, and when n characters are inserted at q
Cursor_removed(cur, lo, hi) ==
    LET f(p) == IF p >= hi THEN p - (hi - lo) ELSE IF p > lo THEN lo ELSE p
    IN [anchor |-> f(cur.anchor), position |-> f(cur.position)]

Cursor_inserted(cur, q, n) ==
    LET f(p) == IF p >= q THEN p + n ELSE p
    IN [anchor |-> f(cur.anchor), position |-> f(cur.position)]

selectionStart(cur) == Min(cur.anchor, cur.position)
selectionEnd(cur) == Max(cur.anchor, cur.position)

\* the loop of _indent_selection from line i on: st holds lines, pos0
\* and pos1
RECURSIVE indent_loop(_, _, _, _, _, _)
indent_loop(st, i, line0, line1, indent, tab) ==
    IF i > line1 THEN st
    ELSE LET line == st.lines[i + 1]
             new == IF indent THEN tab \o line
                    ELSE str_lstrip(py_slice_to(line, Len(tab)))
                         \o py_slice_from(line, Len(tab))
             num == Len(new) - Len(line)
         IN indent_loop([lines |-> [st.lines EXCEPT ![i + 1] = new],
                         pos0 |-> st.pos0 + (IF i = line0 THEN num ELSE 0),
                         pos1 |-> st.pos1 + num],
                        i + 1, line0, line1, indent, tab)

\* clear_input_buffer: the buffer is selected with a cursor of its own and
\* removed; the widget gets that cursor unless the removal raised
BaseConsole_clear_input_buffer(c) ==
    LET r == BaseConsole_remove_selected_input(
                 [c EXCEPT !.cursor = [anchor |-> c.prompt_pos,
                                       position |-> Len(c.doc)]])
    IN IF r.raised = "none" THEN r
       ELSE [r EXCEPT !.c.cursor =
                 Cursor_removed(c.cursor, c.prompt_pos, Len(c.doc))]

\* _indent_selection(cursor, indent) for the widget's cursor: the console
\* after it, the exception raised and the cursor returned
BaseConsole_indent_selection(c, indent) ==
    LET buf == BaseConsole_input_buffer(c)
        pos0 == selectionStart(c.cursor) - c.prompt_pos
        pos1 == selectionEnd(c.cursor) - c.prompt_pos
        line0 == str_count(py_slice_to(buf, pos0), "\n")
        line1 == str_count(py_slice_to(buf, pos1), "\n")
        st == indent_loop([lines |-> str_split(buf), pos0 |-> pos0,
                           pos1 |-> pos1],
                          line0, line0, line1, indent, c.tab_chars)
        cleared == BaseConsole_clear_input_buffer(c)
        text == str_join_lines(st.lines)
        ins == BaseConsole_insert_input_text(cleared.c, text)
        kept == Cursor_inserted(
                    Cursor_removed(c.cursor, c.prompt_pos, Len(c.doc)),
                    ins.c.cursor.position - Len(text), Len(text))
        cur0 == Cursor_setPosition(ins.c.doc, kept,
                                   c.prompt_pos + st.pos0, FALSE)
        cur1 == Cursor_setPosition(ins.c.doc, cur0,
                                   c.prompt_pos + st.pos1, TRUE)
    IN IF cleared.raised # "none"
       THEN [c |-> cleared.c, raised |-> cleared.raised,
             cursor |-> cleared.c.cursor]
       ELSE IF ins.raised # "none"
       THEN [c |-> ins.c, raised |-> ins.raised, cursor |-> ins.c.cursor]
       ELSE [c |-> ins.c, raised |-> "none", cursor |-> cur1]

\* _get_line_until_cursor
BaseConsole_get_line_until_cursor(c) ==
    LET part == py_slice_to(BaseConsole_input_buffer(c),
                            c.cursor.position - c.prompt_pos)
        lines == str_split(part)
    IN lines[Len(lines)]

\* _filter_keyPressEvent for Tab: _handle_tab_key and then the clamp
BaseConsole_tab_key(c) ==
    LET r == IF c.cursor.anchor # c.cursor.position
             THEN BaseConsole_indent_selection(c, TRUE)
             ELSE LET num == Len(c.tab_chars)
                             - (Len(BaseConsole_get_line_until_cursor(c))
                                % Len(c.tab_chars))
                      i == BaseConsole_insert_input_text(
                               c, py_slice_to(c.tab_chars, num))
                  IN [c |-> i.c, raised |-> i.raised, cursor |-> i.c.cursor]
    IN IF r.raised # "none" THEN r
       ELSE [r EXCEPT !.c = BaseConsole_keep_cursor_in_buffer(
                                [r.c EXCEPT !.cursor = r.cursor])]

\* _filter_keyPressEvent for Shift-Tab: _handle_backtab_key and then the
\* clamp
BaseConsole_backtab_key(c) ==
    LET r == BaseConsole_indent_selection(c, FALSE)
    IN IF r.raised # "none" THEN r
       ELSE [r EXCEPT !.c = BaseConsole_keep_cursor_in_buffer(
                                [r.c EXCEPT !.cursor = r.cursor])]

\* s.startswith(t) and s.endswith(t)
str_startswith(s, t) == Len(t) <= Len(s) /\ SubSeq(s, 1, Len(t)) = t
str_endswith_text(s, t) ==
    Len(t) <= Len(s) /\ SubSeq(s, Len(s) - Len(t) + 1, Len(s)) = t

BaseConsole_cursor_offset(c) == c.cursor.position - c.prompt_pos

\* _get_line_after_cursor
BaseConsole_get_line_after_cursor(c) ==
    str_split(py_slice_from(BaseConsole_input_buffer(c),
                            BaseConsole_cursor_offset(c)))[1]

\* A handler removes the text selected by the cursor sel, a copy of the
\* widget's cursor: the widget's cursor follows the removal, and a
\* removed line break raises AttributeError
RemoveWith(k, sel) ==
    LET r == BaseConsole_remove_selected_input([k EXCEPT !.cursor = sel])
    IN [r EXCEPT !.c.cursor =
            Cursor_removed(k.cursor, selectionStart(sel), selectionEnd(sel))]

\* _filter_keyPressEvent for Backspace without modifier:
\* _handle_backspace_key and then the clamp
BaseConsole_backspace_key(c) ==
    LET k == BaseConsole_keep_cursor_in_buffer(c)
        tab == k.tab_chars
        buf == BaseConsole_get_line_until_cursor(k)
        num == IF Len(buf) % Len(tab) = 0 /\ str_endswith_text(buf, tab)
               THEN Len(tab) ELSE 1
        sel == IF k.cursor.anchor = k.cursor.position
                  /\ BaseConsole_cursor_offset(k) >= 1
               THEN [anchor |-> k.cursor.anchor,
                     position |-> k.cursor.position - num]
               ELSE k.cursor
        r == RemoveWith(k, sel)
    IN IF r.raised # "none" THEN r
       ELSE [r EXCEPT !.c = BaseConsole_keep_cursor_in_buffer(r.c)]

\* _filter_keyPressEvent for Delete without modifier: _handle_delete_key
\* and then the clamp
BaseConsole_delete_key(c) ==
    LET k == BaseConsole_keep_cursor_in_buffer(c)
        tab == k.tab_chars
        left == BaseConsole_get_line_until_cursor(k)
        right == BaseConsole_get_line_after_cursor(k)
        num == IF Len(left) % Len(tab) = 0 /\ str_startswith(right, tab)
               THEN Len(tab) ELSE 1
        sel == IF k.cursor.anchor = k.cursor.position
                  /\ BaseConsole_cursor_offset(k)
                         < Len(BaseConsole_input_buffer(k))
               THEN [anchor |-> k.cursor.anchor,
                     position |-> k.cursor.position + num]
               ELSE k.cursor
        r == RemoveWith(k, sel)
    IN IF r.raised # "none" THEN r
       ELSE [r EXCEPT !.c = BaseConsole_keep_cursor_in_buffer(r.c)]

\* QTextEngine::atWordSeparator, without the double quote, the backslash
\* and the grave accent, which no text typed, pasted or put out here holds
WordSeparators ==
    { ".", ",", "?", "!", "@", "#", "$", ":", ";", "-", "<", ">", "[", "]",
      "(", ")", "{", "}", "=", "/", "+", "%", "&", "^", "*", "'", "~", "|" }

\* the character after position p of d is of the kind given: a word
\* separator, white space, or a character of a word
char_is(d, p, kind) ==
    CASE kind = "separator" -> d[p + 1] \in WordSeparators
      [] kind = "space" -> d[p + 1] \in {" ", "\t"}
      [] kind = "word" -> d[p + 1] \notin (WordSeparators \union {" ", "\t"})

\* from p the characters of one kind are passed, to the right up to end
\* and to the left down to start
RECURSIVE skip_right(_, _, _, _)
skip_right(d, p, end, kind) ==
    IF p < end /\ char_is(d, p, kind) THEN skip_right(d, p + 1, end, kind)
    ELSE p

RECURSIVE skip_left(_, _, _, _)
skip_left(d, p, start, kind) ==
    IF p > start /\ char_is(d, p - 1, kind)
    THEN skip_left(d, p - 1, start, kind) ELSE p

\* QTextCursor.movePosition(NextWord): the position after the word or the
\* run of separators at p and the white space that follows, in the line
\* of p; from the end of a line the start of the next line; the end of
\* the document stays
Cursor_nextWord(d, p) ==
    LET end == CHOOSE e \in p..Len(d) :
                   /\ e = Len(d) \/ d[e + 1] = "\n"
                   /\ \A j \in p..(e - 1) : d[j + 1] # "\n"
        q == IF char_is(d, p, "separator")
             THEN skip_right(d, p + 1, end, "separator")
             ELSE skip_right(d, p, end, "word")
    IN IF p = Len(d) THEN p
       ELSE IF p = end THEN p + 1
       ELSE skip_right(d, q, end, "space")

\* QTextCursor.movePosition(PreviousWord): the white space before p is
\* passed, then the run of separators or the word before it, in the line
\* of p; from the start of a line the end of the line before; the start
\* of the document stays
Cursor_previousWord(d, p) ==
    LET start == CHOOSE b \in 0..p :
                     /\ b = 0 \/ d[b] = "\n"
                     /\ \A j \in (b + 1)..p : d[j] # "\n"
        q == skip_left(d, p, start, "space")
    IN IF p = 0 THEN p
       ELSE IF p = start THEN p - 1
       ELSE IF q > start /\ char_is(d, q - 1, "separator")
       THEN skip_left(d, q - 1, start, "separator")
       ELSE skip_left(d, q, start, "word")

\* _filter_keyPressEvent for Control-Backspace: _handle_backspace_key
\* selects back to the previous word and removes the selection; the filter
\* does not clamp after a key pressed with Control
BaseConsole_ctrl_backspace_key(c) ==
    LET k == BaseConsole_keep_cursor_in_buffer(c)
        sel == IF k.cursor.anchor = k.cursor.position
                  /\ BaseConsole_cursor_offset(k) >= 1
               THEN [anchor |-> k.cursor.anchor,
                     position |-> Cursor_previousWord(k.doc,
                                                      k.cursor.position)]
               ELSE k.cursor
    IN RemoveWith(k, sel)

\* _filter_keyPressEvent for Control-Delete: _handle_delete_key selects up
\* to the next word and removes the selection; no clamp follows
BaseConsole_ctrl_delete_key(c) ==
    LET k == BaseConsole_keep_cursor_in_buffer(c)
        sel == IF k.cursor.anchor = k.cursor.position
                  /\ BaseConsole_cursor_offset(k)
                         < Len(BaseConsole_input_buffer(k))
               THEN [anchor |-> k.cursor.anchor,
                     position |-> Cursor_nextWord(k.doc, k.cursor.position)]
               ELSE k.cursor
    IN RemoveWith(k, sel)

\* _filter_keyPressEvent for Shift-Return: _handle_enter_key inserts a
\* line break, and then the clamp
BaseConsole_shift_enter_key(c) ==
    LET r == BaseConsole_insert_input_text(c, <<"\n">>)
    IN IF r.raised # "none" THEN r
       ELSE [r EXCEPT !.c = BaseConsole_keep_cursor_in_buffer(r.c)]

\* the texts pasted into the input buffer
Buffers ==
    { <<"a">>,
      <<"a", "b">>,
      <<" ", "b">>,
      <<" ", " ", " ", " ", "a", "b">>,
      <<"a", "b", "\n", "c", "d">> }

\* insertFromMimeData, or a call of insert_input_text(text): the text goes
\* into an empty input buffer or into a document of at most MaxDoc
\* characters
Paste ==
    \E text \in Buffers :
        LET r == BaseConsole_insert_input_text(Console, text)
        IN /\ fg = "idle"
           /\ Len(doc) = prompt_pos \/ Len(doc) <= MaxDoc
           /\ SetConsole(r.c)
           /\ ccall' = [Handled("paste", r.c, r.raised) EXCEPT !.data = text]
           /\ UNCHANGED <<wvars, svars, pvars, lcall, kvars>>

\* the record of a key handler that clamps the cursor first
Clamping(op, r) ==
    [Handled(op, r.c, r.raised) EXCEPT
         !.buf = BaseConsole_input_buffer(Console),
         !.clamped = TRUE,
         !.clamp = BaseConsole_keep_cursor_in_buffer(Console).cursor]

\* Backspace is pressed
BackspaceKey ==
    LET r == BaseConsole_backspace_key(Console)
    IN /\ fg = "idle"
       /\ SetConsole(r.c)
       /\ ccall' = Clamping("backspace", r)
       /\ UNCHANGED <<wvars, svars, pvars, lcall, kvars>>

\* Delete is pressed
DeleteKey ==
    LET r == BaseConsole_delete_key(Console)
    IN /\ fg = "idle"
       /\ SetConsole(r.c)
       /\ ccall' = Clamping("delete", r)
       /\ UNCHANGED <<wvars, svars, pvars, lcall, kvars>>

\* Backspace is pressed with Control
ControlBackspaceKey ==
    LET r == BaseConsole_ctrl_backspace_key(Console)
    IN /\ fg = "idle"
       /\ SetConsole(r.c)
       /\ ccall' = Clamping("ctrl_backspace", r)
       /\ UNCHANGED <<wvars, svars, pvars, lcall, kvars>>

\* Delete is pressed with Control
ControlDeleteKey ==
    LET r == BaseConsole_ctrl_delete_key(Console)
    IN /\ fg = "idle"
       /\ SetConsole(r.c)
       /\ ccall' = Clamping("ctrl_delete", r)
       /\ UNCHANGED <<wvars, svars, pvars, lcall, kvars>>

\* Shift-Return is pressed
ShiftEnterKey ==
    LET r == BaseConsole_shift_enter_key(Console)
    IN /\ fg = "idle"
       /\ Len(doc) <= MaxDoc
       /\ SetConsole(r.c)
       /\ ccall' = Clamping("shift_enter", r)
       /\ UNCHANGED <<wvars, svars, pvars, lcall, kvars>>

\* clear_input_buffer() is called
ClearInputBuffer ==
    LET r == BaseConsole_clear_input_buffer(Console)
    IN /\ fg = "idle"
       /\ SetConsole(r.c)
       /\ ccall' = [Handled("clear_input_buffer", r.c, r.raised) EXCEPT
                        !.buf = BaseConsole_input_buffer(Console)]
       /\ UNCHANGED <<wvars, svars, pvars, lcall, kvars>>

\* the strings handed to set_tab
Tabs == { <<" ", " ", " ", " ">>, <<" ", " ">>, <<"\t">> }

\* set_tab(chars)
SetTab ==
    \E chars \in Tabs :
        /\ fg = "idle"
        /\ Len(doc) <= MaxDoc
        /\ tab_chars' = chars
        /\ ccall' = [NoConsoleCall EXCEPT !.op = "set_tab"]
        /\ UNCHANGED <<evars, wvars, ctrl_d_exits, svars, pvars, lcall>>

\* the mouse selects text from a to p: the widget sets anchor and position
MouseSelect ==
    \E a \in 0..Len(doc), p \in 0..Len(doc) :
        /\ fg = "idle"
        /\ a <= p
        /\ Len(doc) <= MaxInput
        /\ cursor' = [anchor |-> a, position |-> p]
        /\ ccall' = [NoConsoleCall EXCEPT !.op = "mouse_select"]
        /\ UNCHANGED <<records, linenos, positions, doc, prompt_pos,
                       prompt_end, current_line, last_input, more,
                       wvars, svars, pvars, lcall, kvars>>

\* the record of Tab or Shift-Tab with outcome r
Indented(op, r) ==
    [Handled(op, r.c, r.raised) EXCEPT
         !.buf = BaseConsole_input_buffer(Console),
         !.sel = cursor,
         !.ret_sel = r.cursor]

\* Tab is pressed
TabKey ==
    LET r == BaseConsole_tab_key(Console)
    IN /\ fg = "idle"
       /\ Len(doc) <= MaxInput
       /\ SetConsole(r.c)
       /\ ccall' = Indented(IF cursor.anchor # cursor.position
                            THEN "indent" ELSE "tab", r)
       /\ UNCHANGED <<wvars, svars, pvars, lcall, kvars>>

\* Shift-Tab is pressed
BacktabKey ==
    LET r == BaseConsole_backtab_key(Console)
    IN /\ fg = "idle"
       /\ SetConsole(r.c)
       /\ ccall' = Indented("outdent", r)
       /\ UNCHANGED <<wvars, svars, pvars, lcall, kvars>>

\* no console has been constructed
ConsoleIdle ==
    /\ doc = <<>>
    /\ cursor = [anchor |-> 0, position |-> 0]
    /\ prompt_pos = 0
    /\ prompt_end = 0
    /\ current_line = 0
    /\ last_input = <<>>
    /\ more = FALSE
    /\ thread = "None"
    /\ fg = "idle"
    /\ executing = FALSE
    /\ in_thread = FALSE
    /\ interrupt = FALSE
    /\ done_queue = <<>>
    /\ pending = 0
    /\ tab_chars = Console_init.tab_chars
    /\ ctrl_d_exits = Console_init.ctrl_d_exits
    /\ ccall = NoConsoleCall

InitLog ==
    /\ LogIdle
    /\ PartitionIdle
    /\ StreamIdle
    /\ ConsoleIdle

NextLog ==
    \/ Call_Log_setitem
    \/ Call_Log_delitem
    \/ Call_Log_append
    \/ Call_Log_insert

SpecLog == InitLog /\ [][NextLog]_vars

\* the Log driven by append, insert and delete only
NextLogNoSet ==
    \/ Call_Log_delitem
    \/ Call_Log_append
    \/ Call_Log_insert

SpecLogNoSet == InitLog /\ [][NextLogNoSet]_vars

InitPartition ==
    /\ PartitionIdle
    /\ LogIdle
    /\ StreamIdle
    /\ ConsoleIdle

NextPartition ==
    \/ Call_Partition_getitem
    \/ Call_Partition_setitem
    \/ Call_Partition_delitem
    \/ Call_Partition_append
    \/ Call_Partition_insert
    \/ Call_Partition_find_loc
    \/ Call_Partition_first
    \/ Call_Partition_last

SpecPartition == InitPartition /\ [][NextPartition]_vars

\* the Stream with a writer side and one reader
InitStream ==
    /\ StreamIdle
    /\ PartitionIdle
    /\ LogIdle
    /\ ConsoleIdle

NextStream ==
    \/ Call_Stream_write
    \/ Call_Stream_flush
    \/ Call_Stream_flush_put
    \/ Call_Stream_flush_emit
    \/ Call_Stream_close
    \/ Call_Stream_readline
    \/ Stream_readline_resume
    \/ Stream_readline_timeout

SpecStream == InitStream /\ [][NextStream]_vars

\* The console: Init is the state after PythonConsole.__init__
InitConsole ==
    /\ PartitionIdle
    /\ lcall = NoLogCall
    /\ StreamIdle
    /\ records = Console_init.records
    /\ linenos = Console_init.linenos
    /\ positions = Console_init.positions
    /\ doc = Console_init.doc
    /\ cursor = Console_init.cursor
    /\ prompt_pos = Console_init.prompt_pos
    /\ prompt_end = Console_init.prompt_end
    /\ current_line = Console_init.current_line
    /\ last_input = Console_init.last_input
    /\ more = Console_init.more
    /\ thread = "None"
    /\ fg = "idle"
    /\ executing = FALSE
    /\ in_thread = FALSE
    /\ interrupt = FALSE
    /\ done_queue = <<>>
    /\ pending = 0
    /\ tab_chars = Console_init.tab_chars
    /\ ctrl_d_exits = Console_init.ctrl_d_exits
    /\ ccall = NoConsoleCall

NextConsole ==
    \/ KeyPress
    \/ MousePress
    \/ EnterKey
    \/ FinishCommand
    \/ CtrlC
    \/ Cancel
    \/ CancelFlushReset
    \/ CancelFlushPut
    \/ CancelFlushEmit
    \/ Exit
    \/ EvalInThread
    \/ WorkerWrite
    \/ WorkerRead
    \/ Stream_readline_resume
    \/ WorkerDone
    \/ WorkerInterrupted
    \/ WorkerInterruptedInReadline

SpecConsole == InitConsole /\ [][NextConsole]_vars

\* The transcript: records are appended to the console constructed by
\* __init__, the prompt area looks prompt lines up, and Control-D is
\* pressed under either setting of ctrl_d_exits_console
NextTranscript ==
    \/ Call_append
    \/ Call_get_prompt_text
    \/ CtrlD
    \/ CtrlDExitsConsole

SpecTranscript == InitConsole /\ [][NextTranscript]_vars

\* the console after the keys of typed have been pressed and then Return,
\* the input being complete
Console_entered(typed) ==
    LET c == IF typed = <<>> THEN Console_init
             ELSE BaseConsole_key_press(Console_init, typed).c
    IN BaseConsole_enter_key(c, FALSE)

\* Editing the input buffer: pasting, selecting, Tab and Shift-Tab. Init
\* is the console constructed by __init__, or that console after "a" was
\* typed and entered.
InitEdit ==
    /\ PartitionIdle
    /\ lcall = NoLogCall
    /\ StreamIdle
    /\ \E typed \in {<<>>, <<"a">>} :
           LET c == IF typed = <<>> THEN Console_init
                    ELSE Console_entered(typed)
           IN /\ records = c.records
              /\ linenos = c.linenos
              /\ positions = c.positions
              /\ doc = c.doc
              /\ cursor = c.cursor
              /\ prompt_pos = c.prompt_pos
              /\ prompt_end = c.prompt_end
              /\ current_line = c.current_line
              /\ last_input = c.last_input
              /\ more = c.more
              /\ executing = (typed # <<>>)
    /\ thread = "None"
    /\ fg = "idle"
    /\ in_thread = FALSE
    /\ interrupt = FALSE
    /\ done_queue = <<>>
    /\ pending = 0
    /\ tab_chars = Console_init.tab_chars
    /\ ctrl_d_exits = Console_init.ctrl_d_exits
    /\ ccall = NoConsoleCall

NextEdit ==
    \/ Paste
    \/ MouseSelect
    \/ TabKey
    \/ BacktabKey
    \/ BackspaceKey
    \/ DeleteKey
    \/ ControlBackspaceKey
    \/ ControlDeleteKey
    \/ ShiftEnterKey
    \/ ClearInputBuffer
    \/ SetTab
    \/ CtrlD

SpecEdit == InitEdit /\ [][NextEdit]_vars

\* the foreground's event loop takes the oldest done_signal emission: the
\* FinishCommand steps, and no others, are such steps
DoneDelivered ==
    /\ fg = "idle"
    /\ done_queue # <<>>
    /\ done_queue' = Tail(done_queue)

\* a step of _cancel(): at most one of the four is enabled
CancelStep ==
    \/ Cancel
    \/ CancelFlushReset
    \/ CancelFlushPut
    \/ CancelFlushEmit

\* The scheduling the program runs under: a handler that has started runs
\* to its end, a waiting reader that is woken goes on, and the
\* foreground's event loop delivers a queued done_signal. A reader woken
\* by a put goes on even when a later flush has emptied the Queue again:
\* with an exception pending it raises as soon as it runs, so that step is
\* strongly fair; so is the delivery of a queued done_signal, which the
\* event loop takes in its turn however often Ctrl-C is pressed.
SpecConsoleFair ==
    /\ SpecConsole
    /\ SF_vars(WorkerInterruptedInReadline)
    /\ WF_vars(CancelStep)
    /\ SF_done_queue(DoneDelivered)


\* ------------------------------------------------- claims on the Partition
\* the number of chunks before the last call, and the chunk it addressed
PreLen == Partition_len(pcall.pre)
Addressed == IF pcall.index < 0 THEN pcall.index + PreLen ELSE pcall.index
Succeeded(op) == pcall.op = op /\ ~pcall.raised

\* C1: after any append/insert/set/delete with valid indices and sizes >= 0
\* the offsets start at 0 and never decrease.
C1_OffsetsNonDecreasing ==
    /\ locs[1] = 0
    /\ \A k \in 1..(Len(locs) - 1) : locs[k] <= locs[k + 1]

\* C4: on a Partition with at least one chunk, find_loc(pos) for pos in
\* [0, total_size] returns a valid chunk index i with
\* first(i) <= pos <= last(i) + 1.
C4_FindLocContains ==
    (/\ Succeeded("find_loc")
     /\ PreLen >= 1
     /\ pcall.index <= pcall.pre[Len(pcall.pre)])
    => /\ pcall.ret \in 0..(PreLen - 1)
       /\ pcall.pre[pcall.ret + 1] <= pcall.index
       /\ pcall.index <= pcall.pre[pcall.ret + 2]

\* C5: set(i, size) makes get(i) = size, shifts every offset after chunk i
\* by size - old_size, and keeps the chunk count and the offsets up to the
\* start of chunk i.
C5_SetResizesChunk ==
    Succeeded("set") =>
        LET old == pcall.pre[Addressed + 2] - pcall.pre[Addressed + 1]
        IN /\ Len(locs) = Len(pcall.pre)
           /\ locs[Addressed + 2] - locs[Addressed + 1] = pcall.size
           /\ \A k \in 1..Len(locs) :
                locs[k] = IF k - 1 <= Addressed
                          THEN pcall.pre[k]
                          ELSE pcall.pre[k] + pcall.size - old

\* C6: delete(i) removes one chunk, keeps the offsets up to the start of
\* chunk i, and shifts the offsets of the chunks after it by minus the size
\* of the removed chunk.
C6_DeleteRemovesChunk ==
    Succeeded("delete") =>
        LET old == pcall.pre[Addressed + 2] - pcall.pre[Addressed + 1]
        IN /\ Len(locs) = Len(pcall.pre) - 1
           /\ \A k \in 1..Len(locs) :
                locs[k] = IF k - 1 <= Addressed
                          THEN pcall.pre[k]
                          ELSE pcall.pre[k + 1] - old

\* C7: insert(i, S) immediately followed by delete(i), i >= 0, restores the
\* offsets to their value before the insert.
C7_InsertDeleteRoundTrip ==
    (/\ Succeeded("delete")
     /\ pprev.op = "insert"
     /\ pprev.index = pcall.index
     /\ pcall.index >= 0)
    => locs = pprev.pre

\* C8: get/set/delete/first/last with an index outside [-n, n-1] raise
\* IndexError and leave the offsets unchanged; an index i in [-n, -1] is
\* accepted and addresses chunk n + i.
C8_IndexRange ==
    pcall.op \in {"get", "set", "delete", "first", "last"} =>
        /\ (pcall.index < 0 - PreLen \/ pcall.index > PreLen - 1)
            => (pcall.raised /\ locs = pcall.pre)
        /\ (pcall.index >= 0 - PreLen /\ pcall.index <= -1)
            => /\ ~pcall.raised
               /\ LET i == PreLen + pcall.index
                  IN /\ pcall.op = "get"
                        => pcall.ret = pcall.pre[i + 2] - pcall.pre[i + 1]
                     /\ pcall.op = "first" => pcall.ret = pcall.pre[i + 1]
                     /\ pcall.op = "last" => pcall.ret = pcall.pre[i + 2] - 1
                     /\ pcall.op = "set"
                        => locs = Partition_setitem(pcall.pre, i,
                                                    pcall.size).locs
                     /\ pcall.op = "delete"
                        => locs = Partition_delitem(pcall.pre, i).locs

\* a last(-2) answered on a Partition of two chunks that end apart
C8_Witness ==
    /\ Succeeded("last")
    /\ pcall.index = -2
    /\ PreLen = 2
    /\ pcall.pre[2] > pcall.pre[1]
    /\ pcall.pre[3] > pcall.pre[2]
    /\ pcall.ret = pcall.pre[2] - 1

\* ------------------------------------------------------- claims on the Log
RECURSIVE SumLines(_, _)
SumLines(r, i) == IF i = 0 THEN 0 ELSE SumLines(r, i - 1) + num_lines(r[i])

RECURSIVE SumText(_, _)
SumText(r, i) == IF i = 0 THEN 0 ELSE SumText(r, i - 1) + Len(r[i].text)

\* C2: after any append/insert/set/delete on the Log, failed calls
\* included, the three containers have one length, linenos[i] is
\* records[i].num_lines and positions[i] is len(records[i].text).
C2_ContainersAgree ==
    /\ Len(records) = Partition_len(linenos)
    /\ Len(records) = Partition_len(positions)
    /\ \A k \in 1..Len(records) :
        /\ linenos[k + 1] - linenos[k] = num_lines(records[k])
        /\ positions[k + 1] - positions[k] = Len(records[k].text)

\* C3: after appends, inserts and deletes that all succeeded, for every
\* valid index i, linenos.first(i) is the sum of num_lines over
\* records[0:i] and positions.first(i) the sum of len(text) over them.
C3_FirstIsPrefixSum ==
    ~lcall.raised =>
        \A i \in 0..(Len(records) - 1) :
            /\ Partition_first(linenos, i).ret = SumLines(records, i)
            /\ Partition_first(positions, i).ret = SumText(records, i)

\* C9: a call on the Log that fails leaves records, linenos and positions
\* as they were, and one that succeeds leaves them of one length.
C9_AllOrNothing ==
    IF lcall.raised
    THEN /\ records = lcall.pre.records
         /\ linenos = lcall.pre.linenos
         /\ positions = lcall.pre.positions
    ELSE /\ Len(records) = Partition_len(linenos)
         /\ Len(records) = Partition_len(positions)

\* ---------------------------------------------------- claims on the Stream
\* C10: when the text written and not yet consumed holds a line break, a
\* blocking readline() that returns, returns that text up to but excluding
\* its first line break, however the text was split across write calls.
C10_ReadlineReturnsLine ==
    (/\ rcall.state = "returned"
     /\ rcall.timeout = "None"
     /\ str_contains(rcall.pending, "\n"))
    => rcall.ret = UpToLineBreak(rcall.pending)

\* C11: flush() returns all the text written and not yet consumed, in
\* write order, emits flush_event with that text and leaves nothing
\* buffered.
C11_FlushReturnsWritten ==
    (scall.op = "flush" /\ scall.pc = "returned") =>
        /\ scall.ret = scall.pending
        /\ scall.emitted = <<Signal("flush_event", scall.pending)>>
        /\ str_join(queue) = <<>>

\* C12: a non-blocking readline on a Stream with no line break buffered
\* returns an empty result at once, without an error.
C12_NonBlockingReadlineEmpty ==
    (/\ rcall.timeout = "0"
     /\ rcall.state # "none"
     /\ ~str_contains(rcall.pending, "\n"))
    => /\ rcall.state = "returned"
       /\ rcall.ret = <<>>

\* C14: a readline issued after close() returns at once with the empty
\* EOF result: it neither waits nor raises.
C14_ReadlineAfterClose ==
    rcall.afterclose =>
        /\ rcall.state = "returned"
        /\ rcall.ret = <<>>

\* ---------------------------------------------------------------- console
LastRecord == records[Len(records)]

\* C13: a write of data on the console's stdout raises nothing and leads
\* to exactly one record being appended to the transcript, with text data.
C13_StdoutWriteAppends ==
    ccall.op = "stdout_write" =>
        /\ ccall.raised = "none"
        /\ ccall.added = 1
        /\ LastRecord.text = ccall.data

\* the Ctrl-C handler found the worker executing, and _cancel() then
\* delivered the interrupt while the worker was waiting inside
\* stdin.readline()
CancelledInReadline ==
    /\ ccall.op = "cancel"
    /\ ccall.delivered
    /\ ccall.was_executing
    /\ ccall.was_waiting

\* that worker still waits there, the interrupt pending
BlockedWithInterrupt ==
    /\ CancelledInReadline
    /\ interrupt
    /\ rcall.state = "waiting"

\* a submission has been reported with executed = False, and the handler
\* of that report has left the transcript ending with an input prompt
BackAtPrompt ==
    /\ ccall.op = "finish_command"
    /\ ~ccall.executed
    /\ fg = "idle"
    /\ LastRecord.domain = "IN"

\* C15: with a worker thread, a cancel delivered while the running
\* submission waits inside stdin.readline() wakes that readline, and the
\* submission ends: it is reported as not executed and the console gets
\* back to a fresh prompt.
C15_CancelUnblocksReader == BlockedWithInterrupt ~> BackAtPrompt

\* the reader was woken by the empty string _flush puts and raised the
\* KeyboardInterrupt, the submission it belonged to was reported as not
\* executed, and the controller is Idle
C15_Witness ==
    /\ BackAtPrompt
    /\ ControllerIdle
    /\ rcall.state = "KeyboardInterrupt"
    /\ queue = <<<<>>>>

\* C16: _cancel() delivers the interrupt only to a worker that is running
\* a submission at the moment of delivery.
C16_InterruptOnlyWhileRunning ==
    (ccall.op = "cancel" /\ ccall.delivered) => ccall.was_executing

\* the handler appended a record with text "^C\n"
MarkerAppended ==
    \E i \in (Len(records) - ccall.added + 1)..Len(records) :
        records[i].text = <<"^", "C", "\n">>

\* C17: Ctrl-C while nothing is executing clears the last input and the
\* continuation flag, appends the marker "^C" to the transcript, leaves an
\* input prompt as the last record and delivers no interrupt.
C17_CtrlCIdleDiscardsInput ==
    (ccall.op = "ctrl_c" /\ ~ccall.was_executing) =>
        /\ ccall.raised = "none"
        /\ last_input = <<>>
        /\ ~more
        /\ MarkerAppended
        /\ LastRecord.domain = "IN"
        /\ ~ccall.delivered

\* C18: exit() never fails and leaves no thread; it tears a worker down
\* exactly when there was one, so an exit() following an exit() tears
\* nothing down; a _cancel() without a thread delivers no interrupt.
C18_ExitIdempotent ==
    /\ ccall.op = "exit" =>
           /\ ccall.raised = "none"
           /\ thread = "None"
           /\ ccall.teardown <=> ccall.pre_thread # "None"
           /\ ccall.after_teardown => ~ccall.teardown
    /\ (ccall.op = "cancel" /\ ccall.pre_thread = "None") =>
           ~ccall.delivered

\* an exit() that follows the exit() that tore the worker down
C18_Witness ==
    /\ ccall.op = "exit"
    /\ ccall.after_teardown
    /\ ~ccall.teardown

\* C19: every append adds one record to the Log, and _prompt_pos is past
\* the text appended, so input_buffer() holds no appended text.
C19_AppendAdvancesPromptPos ==
    ccall.appends > 0 =>
        /\ ccall.added = ccall.appends
        /\ prompt_pos >= ccall.appended_end

\* C20: after _keep_cursor_in_buffer the cursor's anchor and position are
\* both in [_prompt_pos, _prompt_end].
C20_CursorClampedInBuffer ==
    ccall.clamped =>
        /\ prompt_pos <= ccall.clamp.anchor
        /\ ccall.clamp.anchor <= prompt_end
        /\ prompt_pos <= ccall.clamp.position
        /\ ccall.clamp.position <= prompt_end

\* the records whose range of prompt lines contains line n
RecordsOfLine(n) ==
    {r \in 1..Len(records) :
        /\ Partition_first(linenos, r - 1).ret <= n
        /\ n <= Partition_last(linenos, r - 1).ret}

\* C22: the lookup of the prompt of line n, 0 <= n < total prompt lines,
\* raises nothing and returns line n - first(r) of the prompt of the
\* record r whose lines contain n.
C22_PromptLookup ==
    ccall.op = "get_prompt_text" =>
        /\ ccall.raised = "none"
        /\ \E r \in RecordsOfLine(ccall.line_number) :
               ccall.data =
                   str_split(records[r].prompt)
                       [ccall.line_number
                        - Partition_first(linenos, r - 1).ret + 1]

\* C24: after appends the positions Partition spans as many characters
\* as the transcript document holds.
C24_PositionsSpanDocument ==
    ccall.op = "append" => positions[Len(positions)] = Len(doc)

\* the input buffer now, and the buffer line of document position p in
\* the buffer b
InputBuffer == SubSeq(doc, prompt_pos + 1, Len(doc))
BufferLine(b, p) == str_count(SubSeq(b, 1, p - prompt_pos), "\n")

\* the handler worked on a selection that lies in the editable region
SelectionInBuffer == prompt_pos <= selectionStart(ccall.sel)

\* C21: indenting a selection from buffer line a to buffer line b raises
\* nothing, prepends one tab width of spaces to each of the lines a..b and
\* to no other line, and returns the selection with its start moved by one
\* tab width and its end by (b - a + 1) tab widths.
C21_IndentSelection ==
    (ccall.op = "indent" /\ SelectionInBuffer) =>
        LET old == str_split(ccall.buf)
            new == str_split(InputBuffer)
            a == BufferLine(ccall.buf, selectionStart(ccall.sel))
            b == BufferLine(ccall.buf, selectionEnd(ccall.sel))
        IN /\ ccall.raised = "none"
           /\ Len(new) = Len(old)
           /\ \A i \in 1..Len(old) :
                  new[i] = IF a <= i - 1 /\ i - 1 <= b
                           THEN tab_chars \o old[i] ELSE old[i]
           /\ selectionStart(ccall.ret_sel)
                  = selectionStart(ccall.sel) + Len(tab_chars)
           /\ selectionEnd(ccall.ret_sel)
                  = selectionEnd(ccall.sel) + (b - a + 1) * Len(tab_chars)

\* C23: an outdent of a selection in the editable region raises nothing
\* and returns a selection whose two ends are not before _prompt_pos and
\* are each on the buffer line they were on.
C23_OutdentKeepsSelection ==
    (ccall.op = "outdent" /\ SelectionInBuffer) =>
        /\ ccall.raised = "none"
        /\ ccall.ret_sel.anchor >= prompt_pos
        /\ ccall.ret_sel.position >= prompt_pos
        /\ BufferLine(InputBuffer, selectionStart(ccall.ret_sel))
               = BufferLine(ccall.buf, selectionStart(ccall.sel))
        /\ BufferLine(InputBuffer, selectionEnd(ccall.ret_sel))
               = BufferLine(ccall.buf, selectionEnd(ccall.sel))

====
